---- MODULE Spec2Model ----
(***************************************************************************)
(* Model of the Bluetooth mesh node of python-mesh: the packet codec       *)
(* (mesh_protocol.py) and the forwarding engine, peer I/O and              *)
(* store-and-forward queue of MeshNode (mesh_node.py).                     *)
(*                                                                         *)
(* A node's device_uuid is its number.  Every receive worker of            *)
(* _handle_client is a small process: it takes a frame off its stream and  *)
(* runs _process_received_packet in two steps, because nothing in the      *)
(* code serialises the duplicate check with the cache insertion.           *)
(***************************************************************************)
EXTENDS Integers, Sequences, FiniteSets, TLC

\* ------------------------------------------------------------------ bounds
NumNodes == 8
MaxTime == 4700
MaxInject == 1
MaxChan == 1
MaxSleeps == 21
MaxThreads == 2
MaxBroadcasts == 2
MaxSessions == 2

\* ------------------------------------------------------- program constants
SOS == 1
DIRECT == 2
RELAY == 3
ACK == 4
Broadcast == 0
DefaultTTL == 5
DefaultKey == 1
TimestampWindow == 300
cache_max_size == 500
cache_ttl == 300
CleanupSleep == 60
RetrySleep == 30
MaxAge == 3600
MaxRetries == 20
ByteMax == 255
CrcModulus == 65536
\* the 'I' field of the header holds up to 2^32 - 1; the model's integers stop
\* at 2^31 - 1, which stands for the far future
TimestampMax == 2147483647
\* the clock reading at which the scenarios begin
T0 == 1000

Nodes == 1..NumNodes
Links == Nodes \X Nodes

VARIABLES
    now,               \* time.time(), in whole seconds
    is_running,        \* [node -> BOOLEAN]              self.is_running
    peers,             \* [node -> set of addresses]     keys of self.peer_sockets
    broken,            \* sockets <<n, p>> of n whose next send or recv fails
    chan,              \* [<<src, dst>> -> frames written by src, unread by dst]
    rxpc,              \* [<<n, p>> -> position of n's receive worker for p]
    rxpkt,             \* [<<n, p>> -> the packet that worker is processing]
    duplicate_cache,   \* [node -> sequence of [key, t]] self.duplicate_cache
    store_and_forward, \* [node -> [uuid -> [packet, retry_count]]]
    retry_due,         \* [node -> the retry worker's time.sleep(30) has ended]
    nextUuid,          \* the next value of uuid.uuid4()
    log,               \* [node -> what the node did with each accepted packet]
    originated,        \* the packets handed to send_message, with their node
    injected,          \* number of foreign frames written so far
    threads,           \* [node -> live threads: server, retry, cleanup]
    cleanup_due,       \* [node -> the cache sweeper's time.sleep(60) has ended]
    bc,                \* [node -> the _broadcast_packet call in progress]
    codec,             \* a packet and what from_bytes(to_bytes(.)) made of it
    session            \* [<<n, a>> -> the sessions of node n with address a]

vars == <<now, is_running, peers, broken, chan, rxpc, rxpkt, duplicate_cache,
          store_and_forward, retry_due, nextUuid, log, originated, injected,
          threads, cleanup_due, bc, codec, session>>

NoPacket == [ok |-> FALSE]

\* No _broadcast_packet call is in progress.
NoBroadcast == [state |-> "idle"]

\* The threads of a node that start() has started once.
Started == [server |-> 1, retry |-> 1, cleanup |-> 1]

NoThreads == [server |-> 0, retry |-> 0, cleanup |-> 0]

\* No session with an address yet.  entry is the session whose socket is
\* self.peer_sockets[a], 0 when a is not a key; pc holds the position of
\* each session's receive worker, dead the sessions whose socket is closed
\* or whose stream is lost; connected and disconnected count the calls of
\* on_peer_connected and on_peer_disconnected made for each session;
\* cleanup is the clean-up of a failed broadcast.
NoSession ==
    [entry |-> 0, opened |-> 0,
     pc |-> [s \in 1..MaxSessions |-> "none"], dead |-> {},
     connected |-> [s \in 1..MaxSessions |-> 0],
     disconnected |-> [s \in 1..MaxSessions |-> 0],
     cleanup |-> [pc |-> "idle", failed |-> 0]]

\* ------------------------------------------------------------------- codec
Abs(x) == IF x < 0 THEN -x ELSE x

\* MeshPacket._calculate_crc16, abstracted to a checksum of the header
\* fields and the payload: equal inputs give equal sums, and a change of one
\* field by less than 2^16 changes the sum.
calculate_crc16(h) ==
    (h.message_type + h.message_uuid + h.hop_count + h.ttl
       + (h.timestamp % CrcModulus) + h.sender_uuid + h.payload.key + h.payload.json.recipient
       + h.payload.json.originalMessageId) % CrcModulus

\* MeshPacket.__init__: a falsy timestamp is replaced by the clock reading.
MeshPacket(mt, mu, hc, tl, ts, su, pl, t) ==
    [ok |-> TRUE, message_type |-> mt, message_uuid |-> mu, hop_count |-> hc,
     ttl |-> tl, timestamp |-> IF ts = 0 THEN t ELSE ts, sender_uuid |-> su,
     payload |-> pl]

\* struct.pack('>BB16sBBI6sH', ...) raises when a field does not fit.
CanPack(p) ==
    /\ p.hop_count \in 0..ByteMax
    /\ p.ttl \in 0..ByteMax
    /\ p.timestamp \in 0..TimestampMax

\* MeshPacket.to_bytes: the frame on the wire.
to_bytes(p) ==
    LET h == [message_type |-> p.message_type, message_uuid |-> p.message_uuid,
              hop_count |-> p.hop_count, ttl |-> p.ttl,
              timestamp |-> p.timestamp, sender_uuid |-> p.sender_uuid,
              payload |-> p.payload]
    IN  [message_type |-> h.message_type, message_uuid |-> h.message_uuid,
         hop_count |-> h.hop_count, ttl |-> h.ttl, timestamp |-> h.timestamp,
         sender_uuid |-> h.sender_uuid, payload |-> h.payload,
         crc |-> calculate_crc16(h)]

\* from_bytes as it would be if it did not verify the CRC.
from_bytes_unchecked(f, t) ==
    MeshPacket(f.message_type, f.message_uuid, f.hop_count, f.ttl,
               f.timestamp, f.sender_uuid, f.payload, t)

\* MeshPacket.from_bytes at clock reading t: NoPacket stands for ValueError.
from_bytes(f, t) ==
    IF f.crc # calculate_crc16(f) THEN NoPacket
    ELSE MeshPacket(f.message_type, f.message_uuid, f.hop_count, f.ttl,
                    f.timestamp, f.sender_uuid, f.payload, t)

\* MeshPacket.encrypt_payload / decrypt_payload: a ciphertext opens only
\* under the key it was made with.
encrypt_payload(json, key) == [key |-> key, json |-> json]

CanDecrypt(pl, key) == pl.key = key

decrypt_payload(pl, key) == pl.json

\* MeshPacket.calculate_hash
calculate_hash(p) == <<p.message_uuid, p.sender_uuid>>

network_key == [n \in Nodes |-> DefaultKey]

create_sos(su, mu, t) ==
    MeshPacket(SOS, mu, 0, DefaultTTL, t, su,
               encrypt_payload([recipient |-> Broadcast, originalMessageId |-> 0],
                               network_key[su]), t)

create_direct_message(su, ru, mu, t) ==
    MeshPacket(DIRECT, mu, 0, DefaultTTL, t, su,
               encrypt_payload([recipient |-> ru, originalMessageId |-> 0],
                               network_key[su]), t)

create_ack(su, ru, orig, mu, t) ==
    MeshPacket(ACK, mu, 0, DefaultTTL, t, su,
               encrypt_payload([recipient |-> ru, originalMessageId |-> orig],
                               network_key[su]), t)

\* A packet is serialised, and the frame is parsed at a later clock reading.
Serialize ==
    /\ codec.state = "packet"
    /\ CanPack(codec.input)
    /\ codec' = [codec EXCEPT !.state = "frame", !.frame = to_bytes(codec.input)]

Deserialize(t) ==
    /\ codec.state = "frame"
    /\ codec' = [codec EXCEPT !.state = "parsed",
                              !.output = from_bytes(codec.frame, t)]

\* --------------------------------------------------------- duplicate cache
CacheKeys(c) == {c[i].key : i \in 1..Len(c)}

is_duplicate(c, p) == calculate_hash(p) \in CacheKeys(c)

\* _mark_as_seen as it would be if the cache were keyed by message_uuid alone.
mark_as_seen_uuid_only(c, p, t) ==
    Append(c, [key |-> <<p.message_uuid, 0>>, t |-> t])

\* _mark_as_seen as it would be with popitem(), which pops the entry
\* inserted last.
mark_as_seen_pop_last(c, p, t) ==
    LET k == calculate_hash(p)
        c1 == IF k \in CacheKeys(c)
              THEN [i \in 1..Len(c) |->
                        IF c[i].key = k THEN [key |-> k, t |-> t] ELSE c[i]]
              ELSE Append(c, [key |-> k, t |-> t])
    IN  IF Len(c1) > cache_max_size THEN SubSeq(c1, 1, Len(c1) - 1) ELSE c1

\* MeshNode._mark_as_seen on an OrderedDict: a present key keeps its place.
mark_as_seen(c, p, t) ==
    LET k == calculate_hash(p)
        c1 == IF k \in CacheKeys(c)
              THEN [i \in 1..Len(c) |->
                        IF c[i].key = k THEN [key |-> k, t |-> t] ELSE c[i]]
              ELSE Append(c, [key |-> k, t |-> t])
    IN  IF Len(c1) > cache_max_size THEN Tail(c1) ELSE c1

is_timestamp_valid(ts, t) == Abs(t - ts) <= TimestampWindow

\* The deliver test as it would be if every accepted packet were delivered.
should_deliver_always(is_broadcast, is_for_me) == TRUE

\* The test of _process_received_packet that guards the callback.
should_deliver(is_broadcast, is_for_me) == is_for_me \/ is_broadcast

\* The ACK test as it would be if it did not look at the recipient.
should_ack_any_recipient(p, is_for_me) == p.message_type = DIRECT

\* The test of _process_received_packet that guards _send_ack; it is made
\* only for a delivered packet.
should_ack(p, is_for_me) == p.message_type = DIRECT /\ is_for_me

\* _should_relay as it would be if it relayed whatever is not for this node.
should_relay_not_for_me(p, is_broadcast, is_for_me) ==
    IF p.ttl <= 0 THEN FALSE
    ELSE IF p.message_type = SOS THEN TRUE
    ELSE IF is_broadcast THEN TRUE
    ELSE IF ~is_for_me THEN TRUE
    ELSE FALSE

should_relay(p, is_broadcast, is_for_me) ==
    IF p.ttl <= 0 THEN FALSE
    ELSE IF p.message_type = SOS THEN TRUE
    ELSE IF is_broadcast THEN TRUE
    ELSE IF ~is_for_me /\ p.message_type = DIRECT THEN TRUE
    ELSE FALSE

\* _relay_packet as it would be if it forgot to decrement ttl.
relay_packet_same_ttl(p, json, key, t) ==
    MeshPacket(RELAY, p.message_uuid, p.hop_count + 1, p.ttl, p.timestamp,
               p.sender_uuid, encrypt_payload(json, key), t)

\* _relay_packet as it would be if it forgot to increment hop_count.
relay_packet_same_hop(p, json, key, t) ==
    MeshPacket(RELAY, p.message_uuid, p.hop_count, p.ttl - 1, p.timestamp,
               p.sender_uuid, encrypt_payload(json, key), t)

\* _relay_packet as it would be if it kept the kind of the packet.
relay_packet_same_kind(p, json, key, t) ==
    MeshPacket(p.message_type, p.message_uuid, p.hop_count + 1, p.ttl - 1,
               p.timestamp, p.sender_uuid, encrypt_payload(json, key), t)

\* The packet MeshNode._relay_packet builds, re-encrypted under key.
relay_packet(p, json, key, t) ==
    MeshPacket(RELAY, p.message_uuid, p.hop_count + 1, p.ttl - 1, p.timestamp,
               p.sender_uuid, encrypt_payload(json, key), t)

\* ---------------------------------------------------------------- peer I/O
\* MeshNode._broadcast_packet from node n over the peer-set ps: the frame is
\* written to every peer whose socket works ...
BroadcastChan(ch, ps, n, f) ==
    [l \in Links |->
        IF l[1] = n /\ l[2] \in ps /\ l \notin broken
        THEN Append(ch[l], f) ELSE ch[l]]

\* ... and the peers whose write failed are closed and removed.
BroadcastPeers(ps, n) == {p \in ps : <<n, p>> \notin broken}

\* self.peer_sockets[a] = sock while a for statement walks the dictionary:
\* the new entry lies ahead of the iterator, also when a was there before.
dict_insert(b, a) ==
    IF b.state = "iterating" THEN [b EXCEPT !.visited = @ \ {a}] ELSE b

\* The for statement of _broadcast_packet creates an iterator over
\* self.peer_sockets, which remembers the size of the dictionary.
broadcast_packet_begin(ps, f) ==
    [state |-> "iterating", frame |-> f, used |-> Cardinality(ps),
     at_start |-> ps, visited |-> {}, failed_peers |-> {}, removed |-> {}]

\* ----------------------------------------------------------------- actions
\* send_message as it would be if it queued every packet, sent or not.
send_message_queue_always(n, p) ==
    /\ originated' = originated \cup
           {[node |-> n, packet |-> p, queued |-> peers[n] = {}]}
    /\ store_and_forward' =
          [store_and_forward EXCEPT ![n] =
              [u \in DOMAIN @ \cup {p.message_uuid} |->
                  IF u = p.message_uuid
                  THEN [packet |-> p, retry_count |-> 0] ELSE @[u]]]
    /\ chan' = BroadcastChan(chan, peers[n], n, to_bytes(p))
    /\ peers' = [peers EXCEPT ![n] = BroadcastPeers(peers[n], n)]

\* MeshNode.send_message: queue the packet when there is no peer, broadcast
\* it otherwise.  It does not insert the packet in the duplicate cache.
send_message(n, p) ==
    /\ originated' = originated \cup
           {[node |-> n, packet |-> p, queued |-> peers[n] = {}]}
    /\ IF peers[n] = {}
       THEN /\ store_and_forward' =
                  [store_and_forward EXCEPT ![n] =
                      [u \in DOMAIN @ \cup {p.message_uuid} |->
                          IF u = p.message_uuid
                          THEN [packet |-> p, retry_count |-> 0] ELSE @[u]]]
            /\ UNCHANGED <<chan, peers>>
       ELSE /\ chan' = BroadcastChan(chan, peers[n], n, to_bytes(p))
            /\ peers' = [peers EXCEPT ![n] = BroadcastPeers(peers[n], n)]
            /\ UNCHANGED store_and_forward

\* MeshNode.send_sos
send_sos(n) ==
    /\ send_message(n, create_sos(n, nextUuid, now))
    /\ nextUuid' = nextUuid + 1
    /\ UNCHANGED <<now, is_running, broken, rxpc, rxpkt, duplicate_cache,
                   retry_due, log, injected>>
    /\ UNCHANGED <<threads, cleanup_due, bc, codec, session>>

\* MeshNode.send_direct
send_direct(n, r) ==
    /\ send_message(n, create_direct_message(n, r, nextUuid, now))
    /\ nextUuid' = nextUuid + 1
    /\ UNCHANGED <<now, is_running, broken, rxpc, rxpkt, duplicate_cache,
                   retry_due, log, injected>>
    /\ UNCHANGED <<threads, cleanup_due, bc, codec, session>>

\* The receive worker of n for peer p reads one frame (_handle_client) and
\* runs _process_received_packet up to the decryption: parse, duplicate
\* check, timestamp check, decrypt.  A frame that fails any of them is
\* dropped and the worker reads on.
process_check(n, p) ==
    /\ is_running[n]
    /\ rxpc[<<n, p>>] = "recv"
    /\ <<n, p>> \notin broken
    /\ chan[<<p, n>>] # <<>>
    /\ LET f == Head(chan[<<p, n>>])
           pk == from_bytes(f, now)
           pass == /\ pk.ok
                   /\ ~is_duplicate(duplicate_cache[n], pk)
                   /\ is_timestamp_valid(pk.timestamp, now)
                   /\ CanDecrypt(pk.payload, network_key[n])
       IN  /\ chan' = [chan EXCEPT ![<<p, n>>] = Tail(@)]
           /\ IF pass
              THEN /\ rxpc' = [rxpc EXCEPT ![<<n, p>>] = "checked"]
                   /\ rxpkt' = [rxpkt EXCEPT ![<<n, p>>] =
                                   pk @@ [wire_ts |-> f.timestamp, checked_at |-> now]]
              ELSE UNCHANGED <<rxpc, rxpkt>>
    /\ UNCHANGED <<now, is_running, peers, broken, duplicate_cache,
                   store_and_forward, retry_due, nextUuid, log, originated,
                   injected>>
    /\ UNCHANGED <<threads, cleanup_due, bc, codec, session>>

\* The rest of _process_received_packet: mark as seen, deliver, ACK, relay.
process_commit(n, p) ==
    /\ rxpc[<<n, p>>] = "checked"
    /\ LET pk == rxpkt[<<n, p>>]
           json == decrypt_payload(pk.payload, network_key[n])
           is_for_me == json.recipient = n
           is_broadcast == json.recipient = Broadcast
           deliver == should_deliver(is_broadcast, is_for_me)
           ack == deliver /\ should_ack(pk, is_for_me)
           relay == should_relay(pk, is_broadcast, is_for_me)
           ackp == create_ack(n, pk.sender_uuid, pk.message_uuid, nextUuid, now)
           rp == relay_packet(pk, json, network_key[n], now)
           sent == relay /\ CanPack(rp)
           ch1 == IF ack THEN BroadcastChan(chan, peers[n], n, to_bytes(ackp))
                  ELSE chan
           ps1 == IF ack THEN BroadcastPeers(peers[n], n) ELSE peers[n]
           ch2 == IF sent THEN BroadcastChan(ch1, ps1, n, to_bytes(rp)) ELSE ch1
           ps2 == IF sent THEN BroadcastPeers(ps1, n) ELSE ps1
       IN  /\ duplicate_cache' = [duplicate_cache EXCEPT ![n] =
                                     mark_as_seen(@, pk, now)]
           /\ chan' = ch2
           /\ peers' = [peers EXCEPT ![n] = ps2]
           /\ nextUuid' = IF ack THEN nextUuid + 1 ELSE nextUuid
           /\ log' = [log EXCEPT ![n] = Append(@,
                        [packet |-> pk, source |-> p, delivered |-> deliver,
                         acked |-> ack, should_relay |-> relay,
                         relayed |-> sent,
                         ack_uuid |-> IF ack THEN nextUuid ELSE 0])]
    /\ rxpc' = [rxpc EXCEPT ![<<n, p>>] = "recv"]
    /\ rxpkt' = [rxpkt EXCEPT ![<<n, p>>] = NoPacket]
    /\ UNCHANGED <<now, is_running, broken, store_and_forward, retry_due,
                   originated, injected>>
    /\ UNCHANGED <<threads, cleanup_due, bc, codec, session>>

\* -------------------------------------- the receive handler, step by step
\* A worker past line 310: it is delivering, acknowledging or relaying.
Busy(l) == rxpc[l] \in {"marked", "sending"}

\* The handler as it would be if the fingerprint were not inserted before
\* the callback and the broadcasts.
process_mark_deferred(n, p) ==
    /\ rxpc[<<n, p>>] = "checked"
    /\ rxpc' = [rxpc EXCEPT ![<<n, p>>] = "marked"]
    /\ UNCHANGED <<now, is_running, peers, broken, chan, rxpkt,
                   duplicate_cache, store_and_forward, retry_due, nextUuid,
                   log, originated, injected, threads, cleanup_due, bc, codec, session>>

\* _process_received_packet, line 310: the accepted packet is marked as seen.
process_mark(n, p) ==
    /\ rxpc[<<n, p>>] = "checked"
    /\ duplicate_cache' = [duplicate_cache EXCEPT ![n] =
                              mark_as_seen(@, rxpkt[<<n, p>>], now)]
    /\ rxpc' = [rxpc EXCEPT ![<<n, p>>] = "marked"]
    /\ UNCHANGED <<now, is_running, peers, broken, chan, rxpkt,
                   store_and_forward, retry_due, nextUuid, log, originated,
                   injected, threads, cleanup_due, bc, codec, session>>

\* Lines 313 to 330 up to the first write: the callback is invoked for a
\* packet to deliver, and the frames to broadcast are an ACK, a relay, both
\* or none.  The walk of _broadcast_packet over the peer-set begins.
process_deliver(n, p) ==
    /\ rxpc[<<n, p>>] = "marked"
    /\ LET pk == rxpkt[<<n, p>>]
           json == decrypt_payload(pk.payload, network_key[n])
           is_for_me == json.recipient = n
           is_broadcast == json.recipient = Broadcast
           deliver == should_deliver(is_broadcast, is_for_me)
           ack == deliver /\ should_ack(pk, is_for_me)
           relay == should_relay(pk, is_broadcast, is_for_me)
           ackp == create_ack(n, pk.sender_uuid, pk.message_uuid, nextUuid, now)
           rp == relay_packet(pk, json, network_key[n], now)
           sent == relay /\ CanPack(rp)
           out == (IF ack THEN <<to_bytes(ackp)>> ELSE <<>>)
                    \o (IF sent THEN <<to_bytes(rp)>> ELSE <<>>)
       IN  /\ log' = [log EXCEPT ![n] = Append(@,
                        [packet |-> pk, source |-> p, delivered |-> deliver,
                         acked |-> ack, should_relay |-> relay,
                         relayed |-> sent,
                         ack_uuid |-> IF ack THEN nextUuid ELSE 0])]
           /\ nextUuid' = IF ack THEN nextUuid + 1 ELSE nextUuid
           /\ IF out = <<>>
              THEN /\ rxpc' = [rxpc EXCEPT ![<<n, p>>] = "recv"]
                   /\ rxpkt' = [rxpkt EXCEPT ![<<n, p>>] = NoPacket]
              ELSE /\ rxpc' = [rxpc EXCEPT ![<<n, p>>] = "sending"]
                   /\ rxpkt' = [rxpkt EXCEPT ![<<n, p>>] =
                                   pk @@ [out |-> out, todo |-> peers[n],
                                          failed_peers |-> {}]]
    /\ UNCHANGED <<now, is_running, peers, broken, chan, duplicate_cache,
                   store_and_forward, retry_due, originated, injected,
                   threads, cleanup_due, bc, codec, session>>

\* _broadcast_packet as the worker runs it: one write to the next peer, a
\* failed write being noted; after the last peer the noted peers are closed
\* and deleted, and the next frame, if any, is broadcast in its turn.
process_send(n, p) ==
    /\ rxpc[<<n, p>>] = "sending"
    /\ LET w == rxpkt[<<n, p>>]
       IN  IF w.todo # {}
           THEN \E a \in w.todo :
                   /\ IF <<n, a>> \in broken
                      THEN /\ rxpkt' = [rxpkt EXCEPT ![<<n, p>>] =
                                  [w EXCEPT !.todo = @ \ {a},
                                            !.failed_peers = @ \cup {a}]]
                           /\ UNCHANGED chan
                      ELSE /\ rxpkt' = [rxpkt EXCEPT ![<<n, p>>] =
                                  [w EXCEPT !.todo = @ \ {a}]]
                           /\ chan' = [chan EXCEPT ![<<n, a>>] =
                                          Append(@, Head(w.out))]
                   /\ UNCHANGED <<peers, broken, rxpc>>
           ELSE LET gone == w.failed_peers \cap peers[n]
                IN  /\ peers' = [peers EXCEPT ![n] = @ \ gone]
                    /\ broken' = broken \cup {<<n, a>> : a \in gone}
                                        \cup {<<a, n>> : a \in gone}
                    /\ IF Len(w.out) > 1
                       THEN /\ rxpkt' = [rxpkt EXCEPT ![<<n, p>>] =
                                   [w EXCEPT !.out = Tail(@),
                                             !.todo = peers[n] \ gone,
                                             !.failed_peers = {}]]
                            /\ UNCHANGED rxpc
                       ELSE /\ rxpkt' = [rxpkt EXCEPT ![<<n, p>>] = NoPacket]
                            /\ rxpc' = [rxpc EXCEPT ![<<n, p>>] = "recv"]
                    /\ UNCHANGED chan
    /\ UNCHANGED <<now, is_running, duplicate_cache, store_and_forward,
                   retry_due, nextUuid, log, originated, injected, threads,
                   cleanup_due, bc, codec, session>>

\* A peer p of node n that does not run this code, or that replays what it
\* has captured, writes a frame of its own making on its stream to n.
\* A forged frame carries a fresh message_uuid and any timestamp.
TimestampInputs(t) ==
    {0, t - MaxAge, t - TimestampWindow - 1, t - TimestampWindow, t,
     t + TimestampWindow, t + TimestampWindow + 1, TimestampMax}

ForgedFrames(p, t) ==
    {to_bytes([create_sos(p, nextUuid, t) EXCEPT !.timestamp = ts]) :
        ts \in TimestampInputs(t)}

CapturedFrames == {to_bytes(o.packet) : o \in originated}

\* A frame with a fresh message_uuid and fields of the writer's choosing.
forged(k, r, tl, hc, su, ts, key, t) ==
    to_bytes([MeshPacket(k, nextUuid, hc, tl, ts, su,
                         encrypt_payload([recipient |-> r,
                                          originalMessageId |-> 0], key), t)
                 EXCEPT !.timestamp = ts])

Kinds == {SOS, DIRECT, RELAY, ACK}

\* A node other than n.
OtherNode(n) == (n % NumNodes) + 1

\* Well-formed frames for node n, written by peer p: every kind, for
\* everybody, for n and for another node, with no, one and five relays
\* left; an SOS that has no room left in hop_count; a DIRECT of another
\* sender.
KindFrames(p, n, t) ==
    {forged(k, r, tl, 0, p, t, DefaultKey, t) :
        k \in Kinds, r \in {Broadcast, n, OtherNode(n)},
        tl \in {0, 1, DefaultTTL}}
      \cup {forged(SOS, Broadcast, DefaultTTL, ByteMax, p, t, DefaultKey, t),
            forged(DIRECT, n, DefaultTTL, 0, OtherNode(n), t, DefaultKey, t)}

\* Frames that _process_received_packet must drop: a CRC that does not
\* match, a timestamp outside the window, a payload under another key.
FaultyFrames(p, t) ==
    {[forged(SOS, Broadcast, DefaultTTL, 0, p, t, DefaultKey, t)
         EXCEPT !.crc = (@ + 1) % CrcModulus],
     forged(SOS, Broadcast, DefaultTTL, 0, p, t - TimestampWindow - 1,
            DefaultKey, t),
     forged(SOS, Broadcast, DefaultTTL, 0, p, t + TimestampWindow + 1,
            DefaultKey, t),
     forged(SOS, Broadcast, DefaultTTL, 0, p, t, DefaultKey + 1, t)}

inject(p, n, f) ==
    /\ injected < MaxInject
    /\ rxpc[<<n, p>>] # "none"
    /\ chan' = [chan EXCEPT ![<<p, n>>] = Append(@, f)]
    /\ injected' = injected + 1
    /\ nextUuid' = IF f \in CapturedFrames THEN nextUuid ELSE nextUuid + 1
    /\ UNCHANGED <<now, is_running, peers, broken, rxpc, rxpkt,
                   duplicate_cache, store_and_forward, retry_due, log, originated>>
    /\ UNCHANGED <<threads, cleanup_due, bc, codec, session>>

\* The clock advances by d seconds; a sleep of the retry worker or of the
\* cache sweeper that is no longer than d ends.
Tick(d) ==
    /\ now + d <= MaxTime
    /\ now' = now + d
    /\ retry_due' = [n \in Nodes |-> retry_due[n] \/ d >= RetrySleep]
    /\ cleanup_due' = [n \in Nodes |-> cleanup_due[n] \/ d >= CleanupSleep]
    /\ UNCHANGED <<is_running, peers, broken, chan, rxpc, rxpkt,
                   duplicate_cache, store_and_forward, nextUuid, log,
                   originated, injected>>
    /\ UNCHANGED <<threads, bc, codec, session>>

\* MeshNode.connect_to_peer(a) at node n, together with the accept of the
\* connection at node a (_run_server starting _handle_client): both ends
\* insert the peer and start a receive worker on the new stream.
connect_to_peer(n, a) ==
    /\ n # a
    /\ a \notin peers[n]
    /\ is_running[n] /\ is_running[a]
    /\ rxpc[<<n, a>>] = "none" /\ rxpc[<<a, n>>] = "none"
    /\ peers' = [peers EXCEPT ![n] = @ \cup {a}, ![a] = @ \cup {n}]
    /\ rxpc' = [rxpc EXCEPT ![<<n, a>>] = "recv", ![<<a, n>>] = "recv"]
    /\ broken' = broken \ {<<n, a>>, <<a, n>>}
    /\ chan' = [chan EXCEPT ![<<n, a>>] = <<>>, ![<<a, n>>] = <<>>]
    /\ bc' = [bc EXCEPT ![n] = dict_insert(@, a), ![a] = dict_insert(@, n)]
    /\ UNCHANGED <<now, is_running, rxpkt, duplicate_cache, store_and_forward,
                   retry_due, nextUuid, log, originated, injected>>
    /\ UNCHANGED <<threads, cleanup_due, codec, session>>

\* The radio link between n and a is lost: the sockets of both ends fail
\* from now on.
link_fail(n, a) ==
    /\ rxpc[<<n, a>>] # "none"
    /\ <<n, a>> \notin broken
    /\ broken' = broken \cup {<<n, a>>, <<a, n>>}
    /\ UNCHANGED <<now, is_running, peers, chan, rxpc, rxpkt, duplicate_cache,
                   store_and_forward, retry_due, nextUuid, log, originated,
                   injected>>
    /\ UNCHANGED <<threads, cleanup_due, bc, codec, session>>

\* _handle_client leaves its loop on a stream error: the finally block closes
\* the socket and deletes the peer.
handle_client_exit(n, p) ==
    /\ rxpc[<<n, p>>] = "recv"
    /\ <<n, p>> \in broken
    /\ rxpc' = [rxpc EXCEPT ![<<n, p>>] = "none"]
    /\ peers' = [peers EXCEPT ![n] = @ \ {p}]
    /\ chan' = [chan EXCEPT ![<<p, n>>] = <<>>]
    /\ UNCHANGED <<now, is_running, broken, rxpkt, duplicate_cache,
                   store_and_forward, retry_due, nextUuid, log, originated,
                   injected>>
    /\ UNCHANGED <<threads, cleanup_due, bc, codec, session>>

\* ------------------------------------------------------ store-and-forward
RECURSIVE SortedSeq(_)
SortedSeq(S) ==
    IF S = {} THEN <<>>
    ELSE LET m == CHOOSE x \in S : \A y \in S : x <= y
         IN  <<m>> \o SortedSeq(S \ {m})

\* The give-up test as it would be if a transmitted packet were dropped.
sf_expired_once_sent(e, t) ==
    t - e.packet.timestamp > MaxAge \/ e.retry_count >= 1

\* The give-up test as it would be if it did not look at the age.
sf_expired_by_count_only(e, t) ==
    e.retry_count >= MaxRetries

\* The give-up test of _store_and_forward_loop at clock reading t.
sf_expired(e, t) ==
    t - e.packet.timestamp > MaxAge \/ e.retry_count >= MaxRetries

\* The pass as it would be if it counted a retry with no peer to send to.
RECURSIVE sf_pass_count_always(_, _, _)
sf_pass_count_always(us, n, st) ==
    IF us = <<>> THEN st
    ELSE LET u == Head(us)
             e == st.q[u]
         IN  IF sf_expired(e, now)
             THEN sf_pass_count_always(Tail(us), n,
                     [st EXCEPT !.expired = @ \cup {u}])
             ELSE sf_pass_count_always(Tail(us), n,
                     [st EXCEPT
                        !.ch = BroadcastChan(@, st.ps, n, to_bytes(e.packet)),
                        !.ps = BroadcastPeers(@, n),
                        !.q = [@ EXCEPT ![u].retry_count = @ + 1]])

\* One pass of the for loop of _store_and_forward_loop of node n over the
\* entries us; st holds the channels, the peer-set, the queue and the
\* list expired.
RECURSIVE sf_pass(_, _, _)
sf_pass(us, n, st) ==
    IF us = <<>> THEN st
    ELSE LET u == Head(us)
             e == st.q[u]
         IN  IF sf_expired(e, now)
             THEN sf_pass(Tail(us), n, [st EXCEPT !.expired = @ \cup {u}])
             ELSE IF st.ps # {} /\ CanPack(e.packet)
             THEN sf_pass(Tail(us), n,
                     [st EXCEPT
                        !.ch = BroadcastChan(@, st.ps, n, to_bytes(e.packet)),
                        !.ps = BroadcastPeers(@, n),
                        !.q = [@ EXCEPT ![u].retry_count = @ + 1]])
             ELSE sf_pass(Tail(us), n, st)

\* A retry worker of node n wakes from time.sleep(30) and runs the body of
\* its loop: retry or give up every queued packet, then delete the expired.
\* Back at the head of the loop it ends if the node is no longer running.
store_and_forward_loop(n) ==
    /\ threads[n].retry > 0
    /\ retry_due[n]
    /\ \A a \in peers[n] : Len(chan[<<n, a>>]) < MaxChan
    /\ LET st == sf_pass(SortedSeq(DOMAIN store_and_forward[n]), n,
                         [ch |-> chan, ps |-> peers[n],
                          q |-> store_and_forward[n], expired |-> {}])
       IN  /\ chan' = st.ch
           /\ peers' = [peers EXCEPT ![n] = st.ps]
           /\ store_and_forward' =
                 [store_and_forward EXCEPT ![n] =
                     [u \in DOMAIN st.q \ st.expired |-> st.q[u]]]
    /\ retry_due' = [retry_due EXCEPT ![n] = FALSE]
    /\ threads' = IF is_running[n] THEN threads
                  ELSE [threads EXCEPT ![n].retry = @ - 1]
    /\ UNCHANGED <<now, is_running, broken, rxpc, rxpkt, duplicate_cache,
                   nextUuid, log, originated, injected>>
    /\ UNCHANGED <<cleanup_due, bc, codec, session>>

\* ------------------------------------------------- broadcast, step by step
\* send_sos of node n up to the head of the for statement of
\* _broadcast_packet: the packet is queued when there is no peer, and the
\* walk over the peer-set begins otherwise.
send_sos_begin(n) ==
    /\ bc[n].state # "iterating"
    /\ nextUuid <= MaxBroadcasts
    /\ LET p == create_sos(n, nextUuid, now)
       IN  /\ originated' = originated \cup
                  {[node |-> n, packet |-> p, queued |-> peers[n] = {}]}
           /\ IF peers[n] = {}
              THEN /\ store_and_forward' =
                         [store_and_forward EXCEPT ![n] =
                             [u \in DOMAIN @ \cup {p.message_uuid} |->
                                 IF u = p.message_uuid
                                 THEN [packet |-> p, retry_count |-> 0]
                                 ELSE @[u]]]
                   /\ UNCHANGED bc
              ELSE /\ bc' = [bc EXCEPT ![n] =
                                broadcast_packet_begin(peers[n], to_bytes(p))]
                   /\ UNCHANGED store_and_forward
    /\ nextUuid' = nextUuid + 1
    /\ UNCHANGED <<now, is_running, peers, broken, chan, rxpc, rxpkt,
                   duplicate_cache, retry_due, log, injected, threads,
                   cleanup_due, codec, session>>

\* The for statement of _broadcast_packet asks its iterator for the next
\* peer.  The iterator raises RuntimeError when the dictionary has changed
\* size since the walk began, and the exception leaves _broadcast_packet.
\* Otherwise the frame is written to the next peer, a failed write being
\* noted; after the last peer the noted peers that are still in the
\* peer-set are closed and deleted.
broadcast_packet_next(n) ==
    /\ bc[n].state = "iterating"
    /\ IF Cardinality(peers[n]) # bc[n].used
       THEN /\ bc' = [bc EXCEPT ![n].state = "aborted"]
            /\ UNCHANGED <<chan, peers, broken>>
       ELSE IF peers[n] \ bc[n].visited = {}
       THEN LET gone == bc[n].failed_peers \cap peers[n]
            IN  /\ peers' = [peers EXCEPT ![n] = @ \ gone]
                /\ broken' = broken \cup {<<n, a>> : a \in gone}
                                    \cup {<<a, n>> : a \in gone}
                /\ bc' = [bc EXCEPT ![n].state = "done", ![n].removed = gone]
                /\ UNCHANGED chan
       ELSE \E a \in peers[n] \ bc[n].visited :
                /\ IF <<n, a>> \in broken
                   THEN /\ bc' = [bc EXCEPT ![n].visited = @ \cup {a},
                                            ![n].failed_peers = @ \cup {a}]
                        /\ UNCHANGED chan
                   ELSE /\ bc' = [bc EXCEPT ![n].visited = @ \cup {a}]
                        /\ chan' = [chan EXCEPT ![<<n, a>>] =
                                       Append(@, bc[n].frame)]
                /\ UNCHANGED <<peers, broken>>
    /\ UNCHANGED <<now, is_running, rxpc, rxpkt, duplicate_cache,
                   store_and_forward, retry_due, nextUuid, log, originated,
                   injected, threads, cleanup_due, codec, session>>

\* ------------------------------------------------- sessions, step by step
\* The peer-set of node n after self.peer_sockets[a] has been set (e # 0)
\* or deleted (e = 0).
with_entry(n, a, e) ==
    [peers EXCEPT ![n] = IF e # 0 THEN @ \cup {a} ELSE @ \ {a}]

\* _run_server: accept() returns a connection of address a and a receive
\* worker is started for it.
run_server_accept(n, a) ==
    /\ is_running[n]
    /\ threads[n].server > 0
    /\ session[<<n, a>>].opened < MaxSessions
    /\ LET s == session[<<n, a>>].opened + 1
       IN  session' = [session EXCEPT ![<<n, a>>].opened = s,
                                      ![<<n, a>>].pc[s] = "begin"]
    /\ UNCHANGED <<now, is_running, peers, broken, chan, rxpc, rxpkt,
                   duplicate_cache, store_and_forward, retry_due, nextUuid,
                   log, originated, injected, threads, cleanup_due, bc, codec>>

\* connect_to_peer(a), lines 190 to 221: nothing when a is in the peer-set;
\* otherwise a stream is opened, inserted, on_peer_connected is called and
\* a receive worker is started on it.
connect_to_peer_open(n, a) ==
    /\ a \notin peers[n]
    /\ session[<<n, a>>].opened < MaxSessions
    /\ LET s == session[<<n, a>>].opened + 1
       IN  session' = [session EXCEPT ![<<n, a>>].opened = s,
                                      ![<<n, a>>].entry = s,
                                      ![<<n, a>>].connected[s] = @ + 1,
                                      ![<<n, a>>].pc[s] = "begin"]
    /\ peers' = with_entry(n, a, 1)
    /\ UNCHANGED <<now, is_running, broken, chan, rxpc, rxpkt,
                   duplicate_cache, store_and_forward, retry_due, nextUuid,
                   log, originated, injected, threads, cleanup_due, bc, codec>>

\* _handle_client, lines 149 to 153: the worker of session s inserts its
\* socket under the address and calls on_peer_connected.
handle_client_begin(n, a, s) ==
    /\ session[<<n, a>>].pc[s] = "begin"
    /\ session' = [session EXCEPT ![<<n, a>>].entry = s,
                                  ![<<n, a>>].connected[s] = @ + 1,
                                  ![<<n, a>>].pc[s] = "recv"]
    /\ peers' = with_entry(n, a, s)
    /\ UNCHANGED <<now, is_running, broken, chan, rxpc, rxpkt,
                   duplicate_cache, store_and_forward, retry_due, nextUuid,
                   log, originated, injected, threads, cleanup_due, bc, codec>>

\* The stream of session s is lost, or closed by the device at the other
\* end: recv and send on its socket fail from now on.
stream_lost(n, a, s) ==
    /\ session[<<n, a>>].pc[s] \in {"begin", "recv"}
    /\ s \notin session[<<n, a>>].dead
    /\ session' = [session EXCEPT ![<<n, a>>].dead = @ \cup {s}]
    /\ UNCHANGED <<now, is_running, peers, broken, chan, rxpc, rxpkt,
                   duplicate_cache, store_and_forward, retry_due, nextUuid,
                   log, originated, injected, threads, cleanup_due, bc, codec>>

\* _handle_client, lines 156 to 180: the worker leaves its loop, on EOF or
\* an error of recv or because the node is no longer running; the finally
\* block closes the socket and looks the address up.  When the address is
\* not a key, on_peer_disconnected is called and the worker ends.
handle_client_finally(n, a, s) ==
    /\ session[<<n, a>>].pc[s] = "recv"
    /\ s \in session[<<n, a>>].dead \/ ~is_running[n]
    /\ session' =
          IF session[<<n, a>>].entry # 0
          THEN [session EXCEPT ![<<n, a>>].dead = @ \cup {s},
                               ![<<n, a>>].pc[s] = "del"]
          ELSE [session EXCEPT ![<<n, a>>].dead = @ \cup {s},
                               ![<<n, a>>].disconnected[s] = @ + 1,
                               ![<<n, a>>].pc[s] = "done"]
    /\ UNCHANGED <<now, is_running, peers, broken, chan, rxpc, rxpkt,
                   duplicate_cache, store_and_forward, retry_due, nextUuid,
                   log, originated, injected, threads, cleanup_due, bc, codec>>

\* _handle_client, lines 181 to 186: del self.peer_sockets[addr], whatever
\* socket is stored there, then on_peer_disconnected.  When the key has
\* gone since line 180, del raises KeyError and the worker ends with it.
handle_client_del(n, a, s) ==
    /\ session[<<n, a>>].pc[s] = "del"
    /\ session' =
          IF session[<<n, a>>].entry = 0
          THEN [session EXCEPT ![<<n, a>>].pc[s] = "error"]
          ELSE [session EXCEPT ![<<n, a>>].entry = 0,
                               ![<<n, a>>].disconnected[s] = @ + 1,
                               ![<<n, a>>].pc[s] = "done"]
    /\ peers' = with_entry(n, a, 0)
    /\ UNCHANGED <<now, is_running, broken, chan, rxpc, rxpkt,
                   duplicate_cache, store_and_forward, retry_due, nextUuid,
                   log, originated, injected, threads, cleanup_due, bc, codec>>

\* _broadcast_packet, lines 275 to 280: the write to address a fails and
\* the address is noted in failed_peers.
broadcast_send_fails(n, a) ==
    /\ session[<<n, a>>].cleanup.pc \in {"idle", "error"}
    /\ session[<<n, a>>].entry # 0
    /\ session[<<n, a>>].entry \in session[<<n, a>>].dead
    /\ session' = [session EXCEPT ![<<n, a>>].cleanup =
                      [pc |-> "noted", failed |-> session[<<n, a>>].entry]]
    /\ UNCHANGED <<now, is_running, peers, broken, chan, rxpc, rxpkt,
                   duplicate_cache, store_and_forward, retry_due, nextUuid,
                   log, originated, injected, threads, cleanup_due, bc, codec>>

\* _broadcast_packet, line 284: is the noted address still a key?
broadcast_cleanup_check(n, a) ==
    /\ session[<<n, a>>].cleanup.pc = "noted"
    /\ session' = [session EXCEPT ![<<n, a>>].cleanup.pc =
                      IF session[<<n, a>>].entry # 0 THEN "found" ELSE "idle"]
    /\ UNCHANGED <<now, is_running, peers, broken, chan, rxpc, rxpkt,
                   duplicate_cache, store_and_forward, retry_due, nextUuid,
                   log, originated, injected, threads, cleanup_due, bc, codec>>

\* _broadcast_packet, lines 285 to 289: the socket now stored under the
\* address is closed and the key deleted.  When the key has gone since line
\* 284, the KeyError of the lookup is swallowed and that of del leaves
\* _broadcast_packet.
broadcast_cleanup_del(n, a) ==
    /\ session[<<n, a>>].cleanup.pc = "found"
    /\ session' =
          IF session[<<n, a>>].entry = 0
          THEN [session EXCEPT ![<<n, a>>].cleanup.pc = "error"]
          ELSE [session EXCEPT ![<<n, a>>].dead = @ \cup {session[<<n, a>>].entry},
                               ![<<n, a>>].entry = 0,
                               ![<<n, a>>].cleanup.pc = "idle"]
    /\ peers' = with_entry(n, a, 0)
    /\ UNCHANGED <<now, is_running, broken, chan, rxpc, rxpkt,
                   duplicate_cache, store_and_forward, retry_due, nextUuid,
                   log, originated, injected, threads, cleanup_due, bc, codec>>

\* --------------------------------------------------------------- lifecycle
\* MeshNode.start: nothing when the node is running; otherwise the flag is
\* set and an acceptor, a retry worker and a cache sweeper are started.
start(n) ==
    /\ \A k \in DOMAIN threads[n] : threads[n][k] < MaxThreads
    /\ IF is_running[n]
       THEN UNCHANGED <<is_running, threads>>
       ELSE /\ is_running' = [is_running EXCEPT ![n] = TRUE]
            /\ threads' = [threads EXCEPT ![n] =
                              [k \in DOMAIN @ |-> @[k] + 1]]
    /\ UNCHANGED <<now, peers, broken, chan, rxpc, rxpkt, duplicate_cache,
                   store_and_forward, retry_due, nextUuid, log, originated,
                   injected, cleanup_due, bc, codec, session>>

\* MeshNode.stop: the flag is cleared, every peer socket is closed and the
\* peer-set emptied, the listening socket is closed.  No thread is joined.
stop(n) ==
    /\ is_running' = [is_running EXCEPT ![n] = FALSE]
    /\ broken' = broken \cup {<<n, a>> : a \in peers[n]}
                        \cup {<<a, n>> : a \in peers[n]}
    /\ peers' = [peers EXCEPT ![n] = {}]
    /\ session' = [l \in Links |->
                      IF l[1] = n
                      THEN [session[l] EXCEPT !.dead = @ \cup ({session[l].entry} \ {0}),
                                              !.entry = 0]
                      ELSE session[l]]
    /\ UNCHANGED <<now, chan, rxpc, rxpkt, duplicate_cache,
                   store_and_forward, retry_due, nextUuid, log, originated,
                   injected, threads, cleanup_due, bc, codec>>

\* An acceptor of node n, out of accept() on the closed listening socket,
\* finds the flag cleared at the head of its loop and ends.
run_server_exit(n) ==
    /\ threads[n].server > 0
    /\ ~is_running[n]
    /\ threads' = [threads EXCEPT ![n].server = @ - 1]
    /\ UNCHANGED <<now, is_running, peers, broken, chan, rxpc, rxpkt,
                   duplicate_cache, store_and_forward, retry_due, nextUuid,
                   log, originated, injected, cleanup_due, bc, codec, session>>

\* A cache sweeper of node n wakes from time.sleep(60) and deletes the
\* fingerprints older than cache_ttl.  Back at the head of the loop it ends
\* if the node is no longer running.
cache_cleanup_loop(n) ==
    /\ threads[n].cleanup > 0
    /\ cleanup_due[n]
    /\ duplicate_cache' =
          [duplicate_cache EXCEPT ![n] =
              SelectSeq(@, LAMBDA c : now - c.t <= cache_ttl)]
    /\ cleanup_due' = [cleanup_due EXCEPT ![n] = FALSE]
    /\ threads' = IF is_running[n] THEN threads
                  ELSE [threads EXCEPT ![n].cleanup = @ - 1]
    /\ UNCHANGED <<now, is_running, peers, broken, chan, rxpc, rxpkt,
                   store_and_forward, retry_due, nextUuid, log, originated,
                   injected, bc, codec, session>>

\* ------------------------------------------------------- flood scenarios
\* The topologies of test_mesh.py: test_5_device_chain, test_duplicate_detection
\* and test_mesh_topology; nodes A, B, ... are 1, 2, ...
Sym(E) == E \cup {<<e[2], e[1]>> : e \in E}

ChainTopology == Sym({<<1, 2>>, <<2, 3>>, <<3, 4>>, <<4, 5>>})

TriangleTopology == Sym({<<1, 2>>, <<1, 3>>, <<2, 3>>})

DiamondTopology == Sym({<<1, 2>>, <<1, 3>>, <<2, 4>>, <<3, 5>>, <<4, 6>>, <<5, 6>>})

\* A ring of seven nodes with an eighth attached to node 7: every node is
\* within three hops of node 1.
RingTopology ==
    Sym({<<1, 2>>, <<2, 3>>, <<3, 4>>, <<4, 5>>, <<5, 6>>, <<6, 7>>, <<7, 1>>,
         <<7, 8>>})

\* The state of the nodes of a simulated network right after add_node and
\* set_topology: started, every neighbour connected, nothing seen or sent.
InitNodes(E) ==
    /\ now = T0
    /\ is_running = [n \in Nodes |-> TRUE]
    /\ peers = [n \in Nodes |-> {p \in Nodes : <<n, p>> \in E}]
    /\ broken = {}
    /\ chan = [l \in Links |-> <<>>]
    /\ rxpc = [l \in Links |-> IF l \in E THEN "recv" ELSE "none"]
    /\ rxpkt = [l \in Links |-> NoPacket]
    /\ duplicate_cache = [n \in Nodes |-> <<>>]
    /\ store_and_forward = [n \in Nodes |-> <<>>]
    /\ retry_due = [n \in Nodes |-> FALSE]
    /\ nextUuid = 1
    /\ log = [n \in Nodes |-> <<>>]
    /\ originated = {}
    /\ injected = 0
    /\ threads = [n \in Nodes |-> Started]
    /\ cleanup_due = [n \in Nodes |-> FALSE]
    /\ bc = [n \in Nodes |-> NoBroadcast]
    /\ session = [l \in Links |-> NoSession]

\* ... and no packet on the codec's bench.
InitTopology(E) == InitNodes(E) /\ codec = NoPacket

Receive == \E l \in Links : process_check(l[1], l[2])

Commit == \E l \in Links : process_commit(l[1], l[2])

\* Node 1 originates one SOS.
OriginateSOS == originated = {} /\ send_sos(1)

\* Node 1 originates one DIRECT message for node 5.
OriginateDirect ==
    /\ \A o \in originated : o.packet.message_type # DIRECT
    /\ send_direct(1, 5)

OriginateOneSOS ==
    /\ \A o \in originated : o.packet.message_type # SOS
    /\ send_sos(1)

InitTriangle == InitTopology(TriangleTopology)
NextTriangle == OriginateSOS \/ Receive \/ Commit
SpecTriangle == InitTriangle /\ [][NextTriangle]_vars

InitChain == InitTopology(ChainTopology)
NextChain == OriginateOneSOS \/ OriginateDirect \/ Receive \/ Commit
SpecChain == InitChain /\ [][NextChain]_vars
FairChain == SpecChain /\ WF_vars(NextChain)

InitDiamond == InitTopology(DiamondTopology)
NextDiamond == OriginateSOS \/ Receive \/ Commit
SpecDiamond == InitDiamond /\ [][NextDiamond]_vars

InitRing == InitTopology(RingTopology)
NextRing == OriginateSOS \/ Receive \/ Commit
SpecRing == InitRing /\ [][NextRing]_vars

\* ------------------------------------------------ replay scenario
\* Nodes 1 - 2 - 3 in a line; node 1 originates an SOS, and on the stream
\* from node 1 to node 2 frames are forged, or replayed at once or an hour
\* later.
LineTopology == Sym({<<1, 2>>, <<2, 3>>})

Inject == \E f \in ForgedFrames(1, now) \cup CapturedFrames : inject(1, 2, f)

HourPasses == Tick(MaxAge)

InitReplay == InitTopology(LineTopology)
NextReplay == OriginateSOS \/ Receive \/ Commit \/ Inject \/ HourPasses
SpecReplay == InitReplay /\ [][NextReplay]_vars

\* ------------------------------------------------ re-entry scenario
\* Nodes 1 - 2 - 3 in a line, every receive handler running step by step:
\* the relay of node 2 comes back from node 3 while node 2 is still writing
\* it to node 1.
Mark == \E l \in Links : process_mark(l[1], l[2])

Deliver == \E l \in Links : process_deliver(l[1], l[2])

Send == \E l \in Links : process_send(l[1], l[2])

\* Node 1 originates one DIRECT message for its neighbour, node 2.
OriginateDirectNear ==
    /\ \A o \in originated : o.packet.message_type # DIRECT
    /\ send_direct(1, 2)

InitReentry == InitTopology(LineTopology)
NextReentry ==
    \/ OriginateOneSOS \/ OriginateDirectNear
    \/ Receive \/ Mark \/ Deliver \/ Send
SpecReentry == InitReentry /\ [][NextReentry]_vars

\* ------------------------------------------------ faulty-frame scenario
\* Nodes 1 - 2 - 3 in a line; node 1 originates an SOS, and on the stream
\* from node 1 to node 2 a frame that must be dropped is written, before
\* or after it: a faulty one, or a copy of the SOS.
InjectFault ==
    \E f \in FaultyFrames(1, now) \cup CapturedFrames : inject(1, 2, f)

InitFaults == InitTopology(LineTopology)
NextFaults == OriginateSOS \/ Receive \/ Commit \/ InjectFault
SpecFaults == InitFaults /\ [][NextFaults]_vars

\* ------------------------------------------------ forwarding scenario
\* Nodes 1 - 2 - 3 in a line; a well-formed frame of any kind, for anybody,
\* is written on the stream from node 1 to node 2.
InjectKinds == \E f \in KindFrames(1, 2, now) : inject(1, 2, f)

InitForward == InitTopology(LineTopology)
NextForward == InjectKinds \/ Receive \/ Commit
SpecForward == InitForward /\ [][NextForward]_vars

\* --------------------------------------- store-and-forward scenario
\* Node 1 and one remote device, address 2, which reads what is written to
\* it.  They start unconnected; node 1 originates one SOS, before or after
\* it connects; the link may fail and be set up again.
remote_read(n, p) ==
    /\ chan[<<n, p>>] # <<>>
    /\ chan' = [chan EXCEPT ![<<n, p>>] = Tail(@)]
    /\ UNCHANGED <<now, is_running, peers, broken, rxpc, rxpkt,
                   duplicate_cache, store_and_forward, retry_due, nextUuid,
                   log, originated, injected>>
    /\ UNCHANGED <<threads, cleanup_due, bc, codec, session>>

Connect == connect_to_peer(1, 2)

LinkFail == link_fail(1, 2)

WorkerExit == handle_client_exit(1, 2)

RetryWake == store_and_forward_loop(1)

RemoteReads == remote_read(1, 2)

\* The retry worker's sleep of 30 s passes, MaxSleeps times at most.
SleepPasses == now + RetrySleep <= T0 + MaxSleeps * RetrySleep /\ Tick(RetrySleep)

InitNode == InitTopology({})
NextNode ==
    \/ OriginateSOS \/ Connect \/ LinkFail \/ WorkerExit \/ RemoteReads
    \/ RetryWake \/ SleepPasses \/ HourPasses
SpecNode == InitNode /\ [][NextNode]_vars

\* The same node and device under a clock that runs on.  The sleep of 30 s
\* passes while a whole hour is left on the clock, and then the hour passes.
HourLeft == now + MaxAge + RetrySleep <= MaxTime

ShortSleep == now + RetrySleep + MaxAge + RetrySleep <= MaxTime /\ Tick(RetrySleep)

LongSleep == Tick(MaxAge + RetrySleep)

NextQueue ==
    \/ OriginateSOS \/ Connect \/ LinkFail \/ WorkerExit \/ RemoteReads
    \/ RetryWake \/ ShortSleep \/ LongSleep
SpecQueue == InitNode /\ [][NextQueue]_vars

\* The retry worker is woken by the clock, which runs on, and the device
\* reads what is written to it, so that no write blocks for ever.
FairQueue ==
    /\ SpecQueue
    /\ WF_vars(RetryWake) /\ WF_vars(RemoteReads)
    /\ WF_vars(ShortSleep) /\ WF_vars(LongSleep)

\* ------------------------------------------------- lifecycle scenario
\* Node 1 as constructed, not started, and the remote device 2.  start and
\* stop are called in any order and at any time; the node connects to the
\* device and originates one SOS.
Start == start(1)

Stop == stop(1)

ServerExit == run_server_exit(1)

CleanupWake == cache_cleanup_loop(1)

\* The cache sweeper's sleep of 60 s passes.
MinutePasses ==
    now + CleanupSleep <= T0 + MaxSleeps * RetrySleep /\ Tick(CleanupSleep)

InitLifecycle ==
    /\ now = T0
    /\ is_running = [n \in Nodes |-> n # 1]
    /\ peers = [n \in Nodes |-> {}]
    /\ broken = {}
    /\ chan = [l \in Links |-> <<>>]
    /\ rxpc = [l \in Links |-> "none"]
    /\ rxpkt = [l \in Links |-> NoPacket]
    /\ duplicate_cache = [n \in Nodes |-> <<>>]
    /\ store_and_forward = [n \in Nodes |-> <<>>]
    /\ retry_due = [n \in Nodes |-> FALSE]
    /\ nextUuid = 1
    /\ log = [n \in Nodes |-> <<>>]
    /\ originated = {}
    /\ injected = 0
    /\ threads = [n \in Nodes |-> IF n = 1 THEN NoThreads ELSE Started]
    /\ cleanup_due = [n \in Nodes |-> FALSE]
    /\ bc = [n \in Nodes |-> NoBroadcast]
    /\ session = [l \in Links |-> NoSession]
    /\ codec = NoPacket

NextLifecycle ==
    \/ Start \/ Stop \/ ServerExit \/ RetryWake \/ CleanupWake
    \/ MinutePasses
    \/ OriginateSOS \/ Connect \/ WorkerExit \/ RemoteReads
SpecLifecycle == InitLifecycle /\ [][NextLifecycle]_vars

\* The acceptor is woken by the closing of the listener, a receive worker by
\* the closing of its socket, the background workers by the clock, which
\* runs on.
FairLifecycle ==
    /\ SpecLifecycle
    /\ WF_vars(ServerExit) /\ WF_vars(WorkerExit) /\ WF_vars(RetryWake)
    /\ WF_vars(CleanupWake) /\ WF_vars(MinutePasses)

\* The clock of the lifecycle scenario has a minute left to run.
ClockRuns == now + CleanupSleep <= T0 + MaxSleeps * RetrySleep

\* --------------------------------------------------- session scenario
\* Node 1, started, and the device of address 2: the device connects and
\* the node connects, streams are lost, the node broadcasts, and stop() may
\* be called.
InitSessions == InitTopology({})
NextSessions ==
    \/ run_server_accept(1, 2)
    \/ connect_to_peer_open(1, 2)
    \/ \E s \in 1..MaxSessions : handle_client_begin(1, 2, s)
    \/ \E s \in 1..MaxSessions : stream_lost(1, 2, s)
    \/ \E s \in 1..MaxSessions : handle_client_finally(1, 2, s)
    \/ \E s \in 1..MaxSessions : handle_client_del(1, 2, s)
    \/ broadcast_send_fails(1, 2)
    \/ broadcast_cleanup_check(1, 2)
    \/ broadcast_cleanup_del(1, 2)
    \/ Stop
SpecSessions == InitSessions /\ [][NextSessions]_vars

\* ------------------------------------------------- broadcast scenario
\* Node 1, connected to the remote device 2, originates SOS packets while
\* device 3 connects, links fail and receive workers end.
PairTopology == Sym({<<1, 2>>})

OriginateBegin == send_sos_begin(1)

BroadcastNext == broadcast_packet_next(1)

ConnectPeer == \E a \in {2, 3} : connect_to_peer(1, a)

LinkFails == \E a \in {2, 3} : link_fail(1, a)

WorkerExits == \E a \in {2, 3} : handle_client_exit(1, a)

PeerReads == \E a \in {2, 3} : remote_read(1, a)

InitBroadcast == InitTopology(PairTopology)
NextBroadcast ==
    \/ OriginateBegin \/ BroadcastNext \/ ConnectPeer \/ LinkFails
    \/ WorkerExits \/ PeerReads
SpecBroadcast == InitBroadcast /\ [][NextBroadcast]_vars

\* ---------------------------------------------- cache lifetime scenario
\* Nodes 1 and 2, connected.  On its stream to node 1 the peer writes an
\* SOS whose timestamp node 1 accepts: the oldest, the present and the
\* latest that passes _is_timestamp_valid.  Later on it writes again what
\* node 1 has accepted from it.  Minutes pass and the cache sweeper of
\* node 1 runs.
WindowFrames(p, t) ==
    {to_bytes([create_sos(p, nextUuid, t) EXCEPT !.timestamp = ts]) :
        ts \in {t - TimestampWindow, t, t + TimestampWindow}}

InjectWindow == \E f \in WindowFrames(2, now) : inject(2, 1, f)

\* Peer p writes once more a frame that node n has accepted from it.
replay(p, n) ==
    /\ rxpc[<<n, p>>] # "none"
    /\ chan[<<p, n>>] = <<>>
    /\ \E i \in 1..Len(log[n]) :
          /\ log[n][i].source = p
          /\ chan' = [chan EXCEPT ![<<p, n>>] = <<to_bytes(log[n][i].packet)>>]
    /\ UNCHANGED <<now, is_running, peers, broken, rxpc, rxpkt,
                   duplicate_cache, store_and_forward, retry_due, nextUuid,
                   log, originated, injected>>
    /\ UNCHANGED <<threads, cleanup_due, bc, codec, session>>

InitExpiry == InitTopology(PairTopology)
NextExpiry ==
    \/ InjectWindow \/ replay(2, 1) \/ Receive \/ Commit
    \/ MinutePasses \/ CleanupWake
SpecExpiry == InitExpiry /\ [][NextExpiry]_vars

\* ---------------------------------------------------- capacity scenario
\* The triangle, whose nodes have accepted other messages before: their
\* duplicate caches are empty, hold one fingerprint, are one short of full
\* or are full.  The fingerprints of the older messages are <<-1, 1>>,
\* <<-2, 1>>, ... in the order of their insertion.
filled_cache(k) == [i \in 1..k |-> [key |-> <<-i, 1>>, t |-> T0]]

FillLevels == {0, 1, cache_max_size - 1, cache_max_size}

InitCache ==
    /\ now = T0
    /\ is_running = [n \in Nodes |-> TRUE]
    /\ peers = [n \in Nodes |-> {p \in Nodes : <<n, p>> \in TriangleTopology}]
    /\ broken = {}
    /\ chan = [l \in Links |-> <<>>]
    /\ rxpc = [l \in Links |-> IF l \in TriangleTopology THEN "recv" ELSE "none"]
    /\ rxpkt = [l \in Links |-> NoPacket]
    /\ \E k \in FillLevels :
          duplicate_cache = [n \in Nodes |->
                                IF n \in 1..3 THEN filled_cache(k) ELSE <<>>]
    /\ store_and_forward = [n \in Nodes |-> <<>>]
    /\ retry_due = [n \in Nodes |-> FALSE]
    /\ nextUuid = 1
    /\ log = [n \in Nodes |-> <<>>]
    /\ originated = {}
    /\ injected = 0
    /\ threads = [n \in Nodes |-> Started]
    /\ cleanup_due = [n \in Nodes |-> FALSE]
    /\ bc = [n \in Nodes |-> NoBroadcast]
    /\ codec = NoPacket
    /\ session = [l \in Links |-> NoSession]

NextCache == OriginateSOS \/ Receive \/ Commit
SpecCache == InitCache /\ [][NextCache]_vars

\* ------------------------------------------------------- codec scenario
\* The packets the codec is tried on: every kind, hop_count and ttl at the
\* ends of a byte, the timestamp at the ends of its field, at the clock
\* reading and in between, two senders, a payload for everybody and one
\* for a node.
CodecInputs ==
    {[MeshPacket(k, 1, hc, tl, ts, su,
                 encrypt_payload([recipient |-> r, originalMessageId |-> 0],
                                 DefaultKey), T0)
         EXCEPT !.timestamp = ts] :
        k \in Kinds, hc \in {0, 1, ByteMax}, tl \in {0, DefaultTTL, ByteMax},
        ts \in {0, 1, T0, TimestampMax}, su \in {1, NumNodes},
        r \in {Broadcast, 1}}

ToBytes ==
    /\ Serialize
    /\ UNCHANGED <<now, is_running, peers, broken, chan, rxpc, rxpkt,
                   duplicate_cache, store_and_forward, retry_due, nextUuid,
                   log, originated, injected, threads, cleanup_due, bc,
                   session>>

FromBytes ==
    /\ Deserialize(now)
    /\ UNCHANGED <<now, is_running, peers, broken, chan, rxpc, rxpkt,
                   duplicate_cache, store_and_forward, retry_due, nextUuid,
                   log, originated, injected, threads, cleanup_due, bc,
                   session>>

InitCodec ==
    /\ InitNodes({})
    /\ codec \in {[state |-> "packet", input |-> p, frame |-> NoPacket,
                    output |-> NoPacket] : p \in CodecInputs}

NextCodec == ToBytes \/ FromBytes
SpecCodec == InitCodec /\ [][NextCodec]_vars

\* ------------------------------------------------------------ observations
Range(s) == {s[i] : i \in 1..Len(s)}

\* The calls of on_message_received made by node n.
Delivered(n) == SelectSeq(log[n], LAMBDA e : e.delivered)

DeliveredCount(n, u) ==
    Len(SelectSeq(log[n], LAMBDA e : e.delivered /\ e.packet.message_uuid = u))

Quiescent ==
    /\ \A l \in Links : chan[l] = <<>>
    /\ \A l \in Links : rxpc[l] # "checked"

\* The nodes of the running scenario are those with a receive worker.
Members == {l[1] : l \in {k \in Links : rxpc[k] # "none"}}

Uuids == 1..(nextUuid - 1)

SosUuids ==
    {o.packet.message_uuid : o \in {x \in originated : x.packet.message_type = SOS}}

DirectUuids ==
    {o.packet.message_uuid : o \in {x \in originated : x.packet.message_type = DIRECT}}

\* Every packet a node holds or has handled, and every frame in flight.
Copies ==
    UNION {Range(chan[l]) : l \in Links}
      \cup {rxpkt[l] : l \in {k \in Links : rxpc[k] = "checked"}}
      \cup UNION {{e.packet : e \in Range(log[n])} : n \in Nodes}

\* The entry a receive worker of node n appends to the log in this step.
Accepts(n) == Len(log'[n]) = Len(log[n]) + 1

LastAccepted(n) == log'[n][Len(log'[n])]

\* The frames node n writes to peer a in this step.
Written(n, a) ==
    SubSeq(chan'[<<n, a>>], Len(chan[<<n, a>>]) + 1, Len(chan'[<<n, a>>]))

\* The keys of a duplicate cache in the order of their insertion.
KeySeq(c) == [i \in 1..Len(c) |-> c[i].key]

\* ------------------------------------------------------------------ claims

\* C1: every node invokes on_message_received at most once for a
\* message_uuid, whatever the order in which the copies arrive.
C1_DeliverAtMostOnce ==
    \A n \in Nodes : \A u \in Uuids : DeliveredCount(n, u) <= 1

\* C2: on the chain, a DIRECT from node 1 to node 5 has, once the network is
\* quiet, been delivered at node 5 and acknowledged to node 1, and nodes 2, 3
\* and 4 have relayed the DIRECT and the ACK without delivering them.
C2_DirectAcrossChain ==
    (Quiescent /\ DirectUuids # {}) =>
        \A u \in DirectUuids :
            /\ DeliveredCount(5, u) = 1
            /\ \E e \in Range(log[5]) : e.packet.message_uuid = u /\ e.acked
            /\ \E e \in Range(log[1]) :
                  /\ e.delivered
                  /\ e.packet.payload.json.originalMessageId = u
                  /\ e.packet.payload.json.recipient = 1
            /\ \A n \in {2, 3, 4} :
                  /\ DeliveredCount(n, u) = 0
                  /\ \E e \in Range(log[n]) : e.packet.message_uuid = u /\ e.relayed

\* C4: every copy of a packet originated by the send API has
\* hop_count + ttl = 5 and hop_count <= 5, and a copy with ttl = 0 is not
\* relayed.
C4_TtlTermination ==
    /\ \A c \in Copies : c.hop_count + c.ttl = DefaultTTL /\ c.hop_count <= DefaultTTL
    /\ \A n \in Nodes : \A e \in Range(log[n]) : e.packet.ttl = 0 => ~e.relayed

\* A node has accepted a copy at its fifth hop and has not relayed it.
C4_Witness ==
    \E n \in Nodes : \E e \in Range(log[n]) :
        e.packet.hop_count = DefaultTTL /\ e.packet.ttl = 0 /\ e.delivered /\ ~e.relayed

\* C5: in the triangle, nodes 2 and 3 deliver the SOS of node 1 exactly once
\* and node 1 never delivers its own SOS.
C5_Triangle ==
    \A u \in SosUuids :
        /\ DeliveredCount(1, u) = 0
        /\ \A n \in {2, 3} : DeliveredCount(n, u) <= 1
        /\ Quiescent => \A n \in {2, 3} : DeliveredCount(n, u) = 1

C7_Coverage ==
    (Quiescent /\ SosUuids # {}) =>
        \A u \in SosUuids : \A n \in Members : DeliveredCount(n, u) >= 1

\* C8: the duplicate check and the cache insertion are one critical section:
\* a worker that has passed the check holds a fingerprint that is not in the
\* cache and that no other worker of the node holds.
C8_AtomicCheckInsert ==
    \A n \in Nodes : \A p \in Nodes :
        rxpc[<<n, p>>] = "checked" =>
            /\ ~is_duplicate(duplicate_cache[n], rxpkt[<<n, p>>])
            /\ \A q \in Nodes \ {p} :
                  rxpc[<<n, q>>] = "checked" =>
                      calculate_hash(rxpkt[<<n, q>>]) # calculate_hash(rxpkt[<<n, p>>])

\* C3: a packet whose timestamp on the wire is more than 300 s from the
\* clock of the receiving node is neither delivered nor relayed, whatever
\* the 32-bit value of the field.
C3_TimestampWindow ==
    \A n \in Nodes : \A e \in Range(log[n]) :
        (e.delivered \/ e.relayed) =>
            Abs(e.packet.checked_at - e.packet.wire_ts) <= TimestampWindow

\* C9: send_message with an empty peer-set puts the packet in the queue
\* under its message_uuid with retry count 0 and writes nothing; with peers
\* it writes the frame to them and leaves the queue alone.
C9_Origination ==
    [][\A o \in originated' \ originated :
          LET n == o.node
              p == o.packet
          IN  IF peers[n] = {}
              THEN /\ p.message_uuid \in DOMAIN store_and_forward'[n]
                   /\ store_and_forward'[n][p.message_uuid] =
                         [packet |-> p, retry_count |-> 0]
                   /\ chan' = chan
              ELSE /\ store_and_forward' = store_and_forward
                   /\ \A l \in Links :
                         chan'[l] =
                            IF l[1] = n /\ l[2] \in peers[n] /\ l \notin broken
                            THEN Append(chan[l], to_bytes(p)) ELSE chan[l]
      ]_vars

\* A packet originated without peers sits in the queue, not yet retried.
C9_Witness ==
    \E o \in originated :
        /\ o.queued
        /\ o.packet.message_uuid \in DOMAIN store_and_forward[o.node]
        /\ store_and_forward[o.node][o.packet.message_uuid].retry_count = 0
        /\ \A l \in Links : chan[l] = <<>>

\* C10: an entry leaves the store-and-forward queue only in a step in which
\* it is older than 3600 s or has been retried 20 times; in particular no
\* broadcast, successful or failed, removes it.
C10_RemovalOnlyTerminal ==
    [][\A n \in Nodes : \A u \in DOMAIN store_and_forward[n] :
          u \notin DOMAIN store_and_forward'[n] =>
              \/ now - store_and_forward[n][u].packet.timestamp > MaxAge
              \/ store_and_forward[n][u].retry_count >= MaxRetries
      ]_vars

\* A queued packet has been given up after its 20 retries, within the hour.
C10_Witness ==
    \E o \in originated :
        /\ o.queued
        /\ o.packet.message_uuid \notin DOMAIN store_and_forward[o.node]
        /\ now - o.packet.timestamp <= MaxAge

\* C11: when the retry worker wakes, a queued packet that is not given up
\* has its retry count raised by exactly one and its frame written once to
\* every peer if the node has a peer, and is left as it is, with nothing
\* written, if the node has none; nothing else changes a retry count, and
\* no retry count exceeds 20.
C11_AttemptsCounter ==
    [][\A n \in Nodes : \A u \in DOMAIN store_and_forward[n] :
          LET e == store_and_forward[n][u]
              live == /\ now - e.packet.timestamp <= MaxAge
                      /\ e.retry_count < MaxRetries
              woke == retry_due[n] /\ ~retry_due'[n]
          IN  /\ e.retry_count <= MaxRetries
              /\ (woke /\ live /\ peers[n] # {}) =>
                    /\ u \in DOMAIN store_and_forward'[n]
                    /\ store_and_forward'[n][u] =
                          [e EXCEPT !.retry_count = e.retry_count + 1]
                    /\ \A a \in peers[n] :
                          chan'[<<n, a>>] =
                             IF <<n, a>> \in broken THEN chan[<<n, a>>]
                             ELSE Append(chan[<<n, a>>], to_bytes(e.packet))
              /\ (woke /\ live /\ peers[n] = {}) =>
                    /\ u \in DOMAIN store_and_forward'[n]
                    /\ store_and_forward'[n][u] = e
                    /\ chan' = chan
              /\ (~woke /\ u \in DOMAIN store_and_forward'[n]) =>
                    store_and_forward'[n][u] = e
      ]_vars

\* A packet queued without peers has been sent to the peer connected since,
\* at the wake-up 60 s after its origination, and that was its first retry.
C11_Witness ==
    \E o \in originated :
        /\ o.queued
        /\ now = o.packet.timestamp + 2 * RetrySleep
        /\ o.packet.message_uuid \in DOMAIN store_and_forward[o.node]
        /\ store_and_forward[o.node][o.packet.message_uuid].retry_count = 1
        /\ chan[<<o.node, 2>>] = <<to_bytes(o.packet)>>

\* C12: whatever the sequence of start() and stop() calls, a node has at
\* most one acceptor, one retry worker and one cache sweeper alive.
C12_OneWorkerOfEachKind ==
    \A n \in Nodes : \A k \in DOMAIN threads[n] : threads[n][k] <= 1

\* C13: a broadcast is not aborted by a change of the peer-set made while it
\* runs, and when it returns it has written to every peer that was in the
\* peer-set when it began and has closed and removed the peers whose write
\* failed, and only those.
C13_BroadcastSnapshot ==
    \A n \in Nodes :
        /\ bc[n].state # "aborted"
        /\ bc[n].state = "done" =>
              /\ bc[n].at_start \subseteq bc[n].visited
              /\ bc[n].removed = bc[n].failed_peers

C15_DeliverRule ==
    \A n \in Nodes : \A e \in Range(log[n]) :
        e.delivered <=>
            \/ e.packet.payload.json.recipient = n
            \/ e.packet.payload.json.recipient = Broadcast

\* A packet addressed to node 3 has been accepted and not delivered by
\* node 2, and accepted and delivered by node 3.
C15_Witness ==
    /\ \E e \in Range(log[2]) :
          e.packet.payload.json.recipient = 3 /\ ~e.delivered
    /\ \E e \in Range(log[3]) :
          e.packet.payload.json.recipient = 3 /\ e.delivered

\* C16: a node that accepts a packet emits an ACK if and only if the packet
\* is of kind DIRECT and its recipient is the node; it then writes to every
\* peer exactly one frame, of kind ACK, with a message_uuid not used before,
\* hop_count 0, ttl 5, the node as sender, the sender_uuid of the packet as
\* recipient and its message_uuid as originalMessageId.
C16_AckRule ==
    [][\A n \in Nodes :
          Accepts(n) =>
              LET e == LastAccepted(n)
                  p == e.packet
              IN  /\ e.acked <=>
                        /\ p.message_type = DIRECT
                        /\ p.payload.json.recipient = n
                  /\ e.acked =>
                        /\ e.ack_uuid = nextUuid
                        /\ nextUuid' = nextUuid + 1
                        /\ peers[n] # {}
                        /\ \A a \in peers[n] :
                              /\ Len(Written(n, a)) = 1
                              /\ LET f == Written(n, a)[1]
                                 IN  /\ f.message_type = ACK
                                     /\ f.message_uuid = nextUuid
                                     /\ f.hop_count = 0
                                     /\ f.ttl = DefaultTTL
                                     /\ f.sender_uuid = n
                                     /\ f.payload.json.recipient = p.sender_uuid
                                     /\ f.payload.json.originalMessageId =
                                           p.message_uuid
                  /\ ~e.acked =>
                        \A a \in Nodes : \A f \in Range(Written(n, a)) :
                            f.message_type # ACK
      ]_vars

\* Node 2 has acknowledged a DIRECT packet of sender 1 and node 1 has
\* delivered the ACK.
C16_Witness ==
    \E e \in Range(log[2]) :
        /\ e.acked
        /\ e.packet.sender_uuid = 1
        /\ \E a \in Range(log[1]) :
              /\ a.packet.message_type = ACK
              /\ a.packet.message_uuid = e.ack_uuid
              /\ a.packet.payload.json.originalMessageId = e.packet.message_uuid
              /\ a.delivered

\* C17 as stated: a fingerprint in the duplicate cache of a node is that of
\* a packet the node has delivered or relayed.
C17_CachedMeansHandled ==
    \A n \in Nodes : \A k \in CacheKeys(duplicate_cache[n]) :
        \E e \in Range(log[n]) :
            calculate_hash(e.packet) = k /\ (e.delivered \/ e.relayed)

\* C17 amended: a fingerprint in the duplicate cache of a node is that of a
\* packet the node has accepted, that is, one that passed parsing, the
\* duplicate check, the timestamp check and decryption; the node need not
\* have delivered or relayed it.
C17_CachedMeansAccepted ==
    \A n \in Nodes : \A k \in CacheKeys(duplicate_cache[n]) :
        \E e \in Range(log[n]) : calculate_hash(e.packet) = k

\* A node holds the fingerprint of a packet for another node that it has
\* accepted, not delivered and not relayed.
C17_Witness ==
    \E n \in Nodes : \E e \in Range(log[n]) :
        /\ calculate_hash(e.packet) \in CacheKeys(duplicate_cache[n])
        /\ e.packet.payload.json.recipient \notin {n, Broadcast}
        /\ ~e.delivered
        /\ ~e.relayed

\* C18: for every packet with hop_count and ttl in 0..255 and a 32-bit
\* timestamp, 0 included, parsing the serialised packet gives the packet
\* back, field by field.
C18_RoundTrip ==
    codec.state = "parsed" => codec.output = codec.input

\* C19: a node decides to relay an accepted packet if and only if its ttl
\* is positive and it is of kind SOS, or for everybody, or of kind DIRECT
\* and not for the node; the relay is then sent, unless hop_count has no
\* room left.  An ACK for the node is delivered and not relayed.
C19_RelayDecision ==
    \A n \in Nodes : \A e \in Range(log[n]) :
        LET p == e.packet
            r == p.payload.json.recipient
        IN  /\ e.should_relay <=>
                  /\ p.ttl > 0
                  /\ \/ p.message_type = SOS
                     \/ r = Broadcast
                     \/ p.message_type = DIRECT /\ r # n
            /\ e.relayed <=> (e.should_relay /\ p.hop_count < ByteMax)
            /\ (p.message_type = ACK /\ r = n) => (e.delivered /\ ~e.relayed)

\* Node 1 has delivered and not relayed an ACK addressed to it that had
\* relays left, and node 3 has accepted the same ACK and has neither
\* delivered nor relayed it.
C19_Witness ==
    \E e \in Range(log[1]) :
        /\ e.packet.message_type = ACK
        /\ e.packet.payload.json.recipient = 1
        /\ e.packet.ttl > 0
        /\ e.delivered
        /\ ~e.should_relay
        /\ ~e.relayed
        /\ \E c \in Range(log[3]) :
              /\ c.packet.message_uuid = e.packet.message_uuid
              /\ ~c.delivered
              /\ ~c.relayed

\* C20: the frame a node writes to its peers when it relays a packet has
\* kind RELAY, the hop_count of the packet plus one, its ttl minus one, and
\* its message_uuid, timestamp, sender_uuid and plaintext payload; parsed,
\* it has the fingerprint of the packet.
C20_RelayAction ==
    [][\A n \in Nodes :
          (Accepts(n) /\ LastAccepted(n).relayed) =>
              LET p == LastAccepted(n).packet
              IN  /\ peers'[n] # {}
                  /\ \A a \in peers'[n] :
                        /\ Written(n, a) # <<>>
                        /\ LET f == Written(n, a)[Len(Written(n, a))]
                           IN  /\ f.message_type = RELAY
                               /\ f.hop_count = p.hop_count + 1
                               /\ f.ttl = p.ttl - 1
                               /\ f.message_uuid = p.message_uuid
                               /\ f.timestamp = p.timestamp
                               /\ f.sender_uuid = p.sender_uuid
                               /\ f.payload.json = p.payload.json
                               /\ calculate_hash(from_bytes(f, now)) =
                                     calculate_hash(p)
                        /\ \A i \in 1..(Len(Written(n, a)) - 1) :
                              Written(n, a)[i].message_type = ACK
      ]_vars

\* Node 3 has accepted, as a duplicate-free packet of kind RELAY with
\* hop_count 1 and ttl 4, the relay node 2 made of an SOS with hop_count 0.
C20_Witness ==
    \E e \in Range(log[2]) :
        /\ e.packet.message_type = SOS
        /\ e.packet.hop_count = 0
        /\ e.packet.ttl = DefaultTTL
        /\ e.relayed
        /\ \E c \in Range(log[3]) :
              /\ c.source = 2
              /\ c.packet.message_type = RELAY
              /\ c.packet.message_uuid = e.packet.message_uuid
              /\ c.packet.hop_count = 1
              /\ c.packet.ttl = DefaultTTL - 1
              /\ c.packet.timestamp = e.packet.timestamp
              /\ c.packet.sender_uuid = e.packet.sender_uuid

\* C21: a worker that is delivering, acknowledging or relaying an accepted
\* packet has the fingerprint of the packet in the duplicate cache of its
\* node, and a copy of the message that another worker of the node takes
\* off its stream meanwhile is dropped: nothing is logged, cached or
\* written for it and that worker reads on.
C21_MarkBeforeTransmit ==
    /\ [](\A l \in Links :
            Busy(l) => is_duplicate(duplicate_cache[l[1]], rxpkt[l]))
    /\ [][\A l \in Links : \A q \in Nodes :
            LET n == l[1]
                f == Head(chan[<<q, n>>])
            IN  (/\ Busy(l)
                 /\ q # l[2]
                 /\ rxpc[<<n, q>>] = "recv"
                 /\ chan[<<q, n>>] # <<>>
                 /\ chan'[<<q, n>>] = Tail(chan[<<q, n>>])
                 /\ calculate_hash(f) = calculate_hash(rxpkt[l])) =>
                    /\ rxpc'[<<n, q>>] = "recv"
                    /\ log' = log
                    /\ duplicate_cache' = duplicate_cache
                    /\ \A k \in Links : k # <<q, n>> => chan'[k] = chan[k]
         ]_vars

\* Node 2 is still relaying the SOS it accepted from node 1: the write to
\* node 1 is yet to come.  Node 3 has accepted the relay of node 2 and has
\* relayed it in turn; the copy it sent back to node 2 has been read there
\* and dropped, node 2 having accepted the message once.
C21_Witness ==
    /\ rxpc[<<2, 1>>] = "sending"
    /\ rxpkt[<<2, 1>>].todo = {1}
    /\ \E e \in Range(log[3]) : e.source = 2 /\ e.relayed
    /\ rxpc[<<3, 2>>] = "recv"
    /\ chan[<<3, 2>>] = <<>>
    /\ rxpc[<<2, 3>>] = "recv"
    /\ Len(log[2]) = 1

\* C22: for every session of a node with an address, on_peer_connected has
\* been called at most once, and exactly once from the moment the receive
\* worker has inserted the peer; on_peer_disconnected has been called at
\* most once, and once the worker has ended it has been called exactly once
\* and the peer-set does not hold the session.
C22_SessionCallbacks ==
    \A l \in Links : \A s \in 1..MaxSessions :
        LET ss == session[l]
        IN  /\ ss.connected[s] <= 1
            /\ ss.pc[s] \in {"recv", "del", "done", "error"} =>
                  ss.connected[s] = 1
            /\ ss.disconnected[s] <= 1
            /\ ss.pc[s] \in {"done", "error"} =>
                  ss.disconnected[s] = 1 /\ ss.entry # s

\* C28: an address in the peer-set maps to the socket of a session whose
\* receive worker has not ended; a receive worker that deletes the address
\* finds its own session's socket there, the clean-up of a failed broadcast
\* closes and deletes the socket whose write failed, and neither raises
\* KeyError.
C28_LiveSessions ==
    /\ [](\A l \in Links :
            session[l].entry # 0 =>
                session[l].pc[session[l].entry] \in {"begin", "recv", "del"})
    /\ [][\A l \in Links : \A s \in 1..MaxSessions :
            LET ss == session[l]
                tt == session'[l]
            IN  /\ (ss.pc[s] = "del" /\ tt.pc[s] # "del") =>
                      (tt.pc[s] = "done" /\ ss.entry = s)
                /\ (ss.cleanup.pc = "found" /\ tt.cleanup.pc # "found") =>
                      (tt.cleanup.pc = "idle" /\ ss.entry = ss.cleanup.failed)
         ]_vars

\* C23: stop() clears is_running, closes the socket of every peer and
\* empties the peer-set; and once the node is stopped, the workers that
\* were alive then end: eventually the node has no worker left, or none but
\* the three of a later start(), and its peer-set is empty unless it runs
\* again.
C23_Shutdown ==
    /\ [][(is_running[1] /\ ~is_running'[1]) =>
             /\ peers'[1] = {}
             /\ \A a \in peers[1] : <<1, a>> \in broken'
         ]_vars
    /\ (~is_running[1] /\ ClockRuns) ~>
           \/ /\ threads[1] = NoThreads
              /\ rxpc[<<1, 2>>] = "none"
              /\ peers[1] = {}
           \/ is_running[1] /\ threads[1] = Started

C25_QueueDrains ==
    /\ [][RetryWake =>
            \A u \in DOMAIN store_and_forward'[1] :
                now' - store_and_forward'[1][u].packet.timestamp <= MaxAge
        ]_vars
    /\ \A u \in 1..2 :
          (u \in DOMAIN store_and_forward[1] /\ HourLeft)
              ~> (u \notin DOMAIN store_and_forward[1])

\* The SOS queued without peers has left the queue by its age, after fewer
\* than 20 retries.
C25_Witness ==
    \E o \in originated :
        /\ o.node = 1 /\ o.queued
        /\ o.packet.message_uuid \notin DOMAIN store_and_forward[1]
        /\ now - o.packet.timestamp > MaxAge
        /\ is_running[1] /\ threads[1] = Started

\* C26: every node relays a message_uuid at most once, so that one
\* originated packet causes no more broadcasts than there are nodes, plus
\* one (the origination, and one relay by each node).
C26_RelayOnce ==
    \A u \in Uuids :
        /\ \A n \in Nodes :
              Len(SelectSeq(log[n], LAMBDA e :
                      e.relayed /\ e.packet.message_uuid = u)) <= 1
        /\ Cardinality({o \in originated : o.packet.message_uuid = u})
             + Cardinality({x \in UNION {{<<n, i>> : i \in 1..Len(log[n])} :
                                             n \in Nodes} :
                   /\ log[x[1]][x[2]].relayed
                   /\ log[x[1]][x[2]].packet.message_uuid = u})
             <= Cardinality(Members) + 1

\* C27: a node accepts a (message_uuid, sender_uuid) once: no two entries of
\* its log of accepted packets have the same fingerprint, also when the
\* cache sweeper has removed the fingerprint in between.
C27_AcceptedOnce ==
    \A n \in Nodes : \A i, j \in 1..Len(log[n]) :
        i # j => calculate_hash(log[n][i].packet) # calculate_hash(log[n][j].packet)

====
